---------------------------- MODULE Spec2Model ----------------------------
(***************************************************************************)
(* Model of src/index.ts: the two hooks useIntersectionObserver and       *)
(* useNewIntersectionObserver, their module-level `observers` lists and    *)
(* the Observer Instance built by registerObserverInstance (one engine     *)
(* handle, one callbackOptions list), together with the engine that        *)
(* queues visibility records and delivers them to cbRunner.                *)
(***************************************************************************)
EXTENDS Naturals, Sequences, FiniteSets

VARIABLES
    observers,   \* module name -> the module's `observers` array
    hook,        \* consumer -> which hook the mounted component calls
    params,      \* consumer -> the params object of its latest render
    ref,         \* consumer -> ref.current
    deps,        \* consumer -> the effect's dependency array of the latest render
    cleanup,     \* consumer -> what the latest effect run returned
    handles,     \* reversal handles held by direct callers of registerCallback
    released,    \* those of them invoked since registerCallback returned them
    requested,   \* per module, the Configurations the array was searched for
    last         \* what the latest step did: method calls, batch, callbacks invoked

vars == <<observers, hook, params, ref, deps, cleanup, handles, released,
          requested, last>>

-----------------------------------------------------------------------------
(* Bounds *)

MaxObservers == 2     \* instances per `observers` array (components)
MaxQueued == 1        \* records queued in all engines together (components)
MaxBatch == 2         \* records queued in the engine (direct callers)
MaxSubs == 2          \* subscription records per instance (direct callers)
MaxRuns == 3          \* instances per `observers` array (one component alone)

-----------------------------------------------------------------------------
(* Values *)

Modules == {"old", "new"}
Consumers == {"c1", "c2"}
Callbacks == Consumers
Elements == {"A", "B"}
NULL == "null"
UNDEFINED == "undefined"
ABSENT == "<absent>"

AllKeys == {"root", "rootMargin", "threshold", "active", "setEntries"}
ConfigKeys == {"root", "rootMargin", "threshold"}

\* An object is a function on AllKeys; a key the object does not own is ABSENT.
EmptyObject == [k \in AllKeys |-> ABSENT]

keys(o) == {k \in AllKeys : o[k] # ABSENT}

DEFAULT_PARAMS ==
    [EmptyObject EXCEPT !["active"] = "true",
                        !["rootMargin"] = "0px 0px 0px 0px",
                        !["threshold"] = "0",
                        !["root"] = NULL]

\* The params objects components pass.
ParamsSet ==
    { EmptyObject,
      [EmptyObject EXCEPT !["active"] = "false"],
      [EmptyObject EXCEPT !["rootMargin"] = "0px 0px 100px 0px",
                          !["threshold"] = "0"] }

\* A visibility record: its target and its time, the place it took in the
\* engine's queue.
Entries == [target : Elements, time : 1..(MaxBatch + 1)]

\* What each component can pass and attach its ref to: c1 varies its params
\* and renders element A or nothing, c2 keeps the default params and renders
\* element B.
ParamsOf(c) == IF c = "c1" THEN ParamsSet ELSE {EmptyObject}

RefsOf(c) == IF c = "c1" THEN {"A", NULL} ELSE {"B"}

NoHandle == [module |-> "old", inst |-> 0, callback |-> "c1", element |-> NULL]

-----------------------------------------------------------------------------
(* ramda and language helpers *)

\* R.merge(l, r): own properties of l merged with those of r; r wins.
merge(l, r) == [k \in AllKeys |-> IF k \in keys(r) THEN r[k] ELSE l[k]]

\* const { k, ...rest } = o
rest(o, k) == [o EXCEPT ![k] = ABSENT]

\* { ...o, k: v }: k becomes an own property even when v is undefined
spread(o, k, v) == [o EXCEPT ![k] = IF v = ABSENT THEN UNDEFINED ELSE v]

\* equals as a one-sided comparison: only the keys of the second object.
equalsLoose(a, b) == \A k \in keys(b) : a[k] = b[k]

\* R.equals on two plain objects: same own keys, equal values.
equals(a, b) == keys(a) = keys(b) /\ \A k \in keys(a) : a[k] = b[k]

\* observers.find(pipe(prop('options'), equals(options))): index or 0
find(list, options) ==
    IF \E i \in 1..Len(list) : equals(list[i].options, options)
    THEN CHOOSE i \in 1..Len(list) :
            /\ equals(list[i].options, options)
            /\ \A j \in 1..(i - 1) : ~equals(list[j].options, options)
    ELSE 0

truthy(v) == v \notin {"false", UNDEFINED, ABSENT, NULL}

\* An array is an object: always truthy, the empty one included.
truthyArray(a) == TRUE


-----------------------------------------------------------------------------
(* The Observer Instance: registerObserverInstance and its closures *)

\* registerObserverInstance({ active, ...options }): the object it builds.
\* `observed` is the engine's set of observation targets, `queue` the
\* engine's queued entries.
registerObserverInstance(props) ==
    LET active == props["active"]
        options == rest(props, "active")
    IN [ options |-> spread(options, "active", active),
         observed |-> {},
         callbackOptions |-> <<>>,
         queue |-> <<>> ]

\* new IntersectionObserver(cbRunner, options): the dictionary the engine of
\* an instance was constructed with (options before active was added back).
engineInit(inst) == rest(inst.options, "active")

\* registerCallback(setEntries, element): observe, push
registerCallback(inst, setEntries, element) ==
    [inst EXCEPT !.observed = @ \cup {element},
                 !.callbackOptions =
                     Append(@, [callback |-> setEntries, element |-> element])]

\* The predicate of the filter in the function registerCallback returns.
keptByRevert(r, setEntries, element) ==
    r.element = element /\ r.callback = setEntries

\* The returned function as it would be without its call of unobserve.
revertKeepWatching(inst, setEntries, element) ==
    [inst EXCEPT !.callbackOptions =
                     SelectSeq(@, LAMBDA r : keptByRevert(r, setEntries, element))]

\* The returned function as it would be if it switched the watching of the
\* element instead of ending it.
revertToggle(inst, setEntries, element) ==
    [inst EXCEPT !.observed = IF element \in @ THEN @ \ {element}
                              ELSE @ \cup {element},
                 !.callbackOptions =
                     SelectSeq(@, LAMBDA r : keptByRevert(r, setEntries, element))]

\* The function registerCallback returns: unobserve, filter
revert(inst, setEntries, element) ==
    [inst EXCEPT !.observed = @ \ {element},
                 !.callbackOptions =
                     SelectSeq(@, LAMBDA r : keptByRevert(r, setEntries, element))]

\* unregisterCallback as it would be if it also dropped the element's records.
unregisterCallbackPrune(inst, element) ==
    [inst EXCEPT !.observed = @ \ {element},
                 !.callbackOptions = SelectSeq(@, LAMBDA r : r.element # element)]

\* unregisterCallback(element): unobserve
unregisterCallback(inst, element) ==
    [inst EXCEPT !.observed = @ \ {element}]

\* entries.filter(({ target }) => target === element)
entriesFor(batch, element) == SelectSeq(batch, LAMBDA e : e.target = element)

\* cbRunner(entries, observer): the callbacks it invokes, in order, each with
\* the record it was invoked for and the array it was given.
cbRunner(inst, batch) ==
    LET all == [i \in 1..Len(inst.callbackOptions) |->
                   [callback |-> inst.callbackOptions[i].callback,
                    element |-> inst.callbackOptions[i].element,
                    args |-> entriesFor(batch, inst.callbackOptions[i].element)]]
    IN SelectSeq(all, LAMBDA c : truthyArray(c.args))

-----------------------------------------------------------------------------
(* The hooks *)

\* const { active, ...options } = merge(params || {}, DEFAULT_PARAMS)
\* and ({ active = true, ...options })
hookActive(h, p) ==
    IF h = "old" THEN merge(p, DEFAULT_PARAMS)["active"]
    ELSE IF p["active"] \in {ABSENT, UNDEFINED} THEN "true" ELSE p["active"]

\* The object the effect looks up: `options` in the old hook, `opts` in the new.
hookOptions(h, p) ==
    IF h = "old" THEN rest(merge(p, DEFAULT_PARAMS), "active")
    ELSE merge([EmptyObject EXCEPT !["active"] = hookActive(h, p)],
               rest(p, "active"))

\* { setEntries, ...options } and { setEntries, ...opts }
hookProps(h, c, p) ==
    merge([EmptyObject EXCEPT !["setEntries"] = c], hookOptions(h, p))

\* root, rootMargin and threshold of an options object: what the engine is
\* constructed with.
Configuration(options) == [k \in ConfigKeys |-> options[k]]

Handle(m, i, cb, el) == [module |-> m, inst |-> i, callback |-> cb, element |-> el]

Call(op, m, i, cb, el) ==
    [op |-> op, module |-> m, inst |-> i, callback |-> cb, element |-> el]

\* observers.find(...) || registerObserverInstance(...): the array afterwards
resolveList(list, options, props) ==
    IF find(list, options) # 0 THEN list
    ELSE Append(list, registerObserverInstance(props))

\* observers.find(...) || registerObserverInstance(...): the instance's index
resolveIndex(list, options) ==
    IF find(list, options) # 0 THEN find(list, options) ELSE Len(list) + 1

\* The body of the effect, run for consumer c of hook h with params p and
\* ref.current = el on the array `list`: the array afterwards, what the
\* effect returns, and the instance methods it called.
effect(list, h, c, p, el) ==
    LET options == hookOptions(h, p)
        active == hookActive(h, p)
        list1 == resolveList(list, options, hookProps(h, c, p))
        i == resolveIndex(list, options)
        made == IF find(list, options) = 0
                THEN <<Call("new", h, i, c, NULL)>> ELSE <<>>
    IN IF el # NULL /\ truthy(active)
       THEN [list |-> [list1 EXCEPT ![i] = registerCallback(@, c, el)],
             cleanup |-> Handle(h, i, c, el),
             calls |-> made \o <<Call("registerCallback", h, i, c, el)>>]
       ELSE IF el # NULL /\ ~truthy(active)
       THEN [list |-> [list1 EXCEPT ![i] = unregisterCallback(@, el)],
             cleanup |-> NoHandle,
             calls |-> made \o <<Call("unregisterCallback", h, i, c, el)>>]
       ELSE [list |-> list1, cleanup |-> NoHandle, calls |-> made]

\* Running what the previous effect returned, if it returned a function.
runCleanup(obs, hd) ==
    IF hd.inst = 0 THEN obs
    ELSE [obs EXCEPT ![hd.module][hd.inst] = revert(@, hd.callback, hd.element)]

cleanupCalls(hd) ==
    IF hd.inst = 0 THEN <<>>
    ELSE <<Call("revert", hd.module, hd.inst, hd.callback, hd.element)>>

\* `again` marks a reversal handle invoked twice in a row.
Step(op, who, i, calls, batch, invoked) ==
    [op |-> op, who |-> who, inst |-> i, calls |-> calls,
     batch |-> batch, invoked |-> invoked, again |-> FALSE]

-----------------------------------------------------------------------------
(* State after the modules are loaded: no instance, no component mounted *)

Init ==
    /\ observers = [m \in Modules |-> <<>>]
    /\ hook = [c \in Consumers |-> "none"]
    /\ params = [c \in Consumers |-> EmptyObject]
    /\ ref = [c \in Consumers |-> NULL]
    /\ deps = [c \in Consumers |-> <<NULL, "true">>]
    /\ cleanup = [c \in Consumers |-> NoHandle]
    /\ handles = {}
    /\ released = {}
    /\ requested = [m \in Modules |-> {}]
    /\ last = Step("init", "none", 0, <<>>, <<>>, <<>>)

-----------------------------------------------------------------------------
(* Components calling the hooks *)

\* First render of a component calling hook h with params p; the commit
\* attaches ref to el (or to nothing); the effect runs. `cap` bounds the
\* length of the array.
Mount(c, h, p, el, cap) ==
    LET eff == effect(observers[h], h, c, p, el)
    IN /\ hook[c] = "none"
       /\ Len(eff.list) <= cap
       /\ observers' = [observers EXCEPT ![h] = eff.list]
       /\ hook' = [hook EXCEPT ![c] = h]
       /\ params' = [params EXCEPT ![c] = p]
       /\ ref' = [ref EXCEPT ![c] = el]
       /\ deps' = [deps EXCEPT ![c] = <<NULL, hookActive(h, p)>>]
       /\ cleanup' = [cleanup EXCEPT ![c] = eff.cleanup]
       /\ requested' = [requested EXCEPT
                            ![h] = @ \cup {Configuration(hookOptions(h, p))}]
       /\ last' = Step("mount", c, 0, eff.calls, <<>>, <<>>)
       /\ UNCHANGED <<handles, released>>

\* A later render with params p; the dependencies are read during the
\* render, the commit then attaches ref to el, and the effect (after the
\* previous cleanup) runs only when a dependency changed.
Render(c, p, el, cap) ==
    LET h == hook[c]
        newDeps == <<ref[c], hookActive(h, p)>>
        obs1 == runCleanup(observers, cleanup[c])
        eff == effect(obs1[h], h, c, p, el)
    IN /\ hook[c] # "none"
       /\ params' = [params EXCEPT ![c] = p]
       /\ ref' = [ref EXCEPT ![c] = el]
       /\ deps' = [deps EXCEPT ![c] = newDeps]
       /\ IF newDeps = deps[c]
          THEN /\ UNCHANGED <<observers, cleanup, requested>>
               /\ last' = Step("render", c, 0, <<>>, <<>>, <<>>)
          ELSE /\ Len(eff.list) <= cap
               /\ observers' = [obs1 EXCEPT ![h] = eff.list]
               /\ cleanup' = [cleanup EXCEPT ![c] = eff.cleanup]
               /\ requested' = [requested EXCEPT
                                    ![h] = @ \cup {Configuration(hookOptions(h, p))}]
               /\ last' = Step("render", c, 0,
                               cleanupCalls(cleanup[c]) \o eff.calls, <<>>, <<>>)
       /\ UNCHANGED <<hook, handles, released>>

\* The component is removed: the last cleanup runs, its state is dropped.
Unmount(c) ==
    /\ hook[c] # "none"
    /\ observers' = runCleanup(observers, cleanup[c])
    /\ hook' = [hook EXCEPT ![c] = "none"]
    /\ params' = [params EXCEPT ![c] = EmptyObject]
    /\ ref' = [ref EXCEPT ![c] = NULL]
    /\ deps' = [deps EXCEPT ![c] = <<NULL, "true">>]
    /\ cleanup' = [cleanup EXCEPT ![c] = NoHandle]
    /\ last' = Step("unmount", c, 0, cleanupCalls(cleanup[c]), <<>>, <<>>)
    /\ UNCHANGED <<handles, released, requested>>

-----------------------------------------------------------------------------
(* The engine *)

RECURSIVE SumLen(_, _)
SumLen(list, n) == IF n = 0 THEN 0 ELSE Len(list[n].queue) + SumLen(list, n - 1)

Queued == SumLen(observers["old"], Len(observers["old"]))
          + SumLen(observers["new"], Len(observers["new"]))

\* The engine notes a visibility change of an element it observes.
Queue(m, i, el, cap) ==
    /\ i \in 1..Len(observers[m])
    /\ el \in observers[m][i].observed
    /\ Queued < cap
    /\ observers' = [observers EXCEPT ![m][i].queue =
                        Append(@, [target |-> el, time |-> Len(@) + 1])]
    /\ last' = Step("queue", "engine", 0, <<>>, <<>>, <<>>)
    /\ UNCHANGED <<hook, params, ref, deps, cleanup, handles, released, requested>>

\* The engine delivers its queued records to cbRunner; `invoked` keeps what
\* each callback (a component's setEntries) was called with.
Deliver(m, i) ==
    /\ i \in 1..Len(observers[m])
    /\ observers[m][i].queue # <<>>
    /\ last' = Step("deliver", "engine", i, <<>>, observers[m][i].queue,
                    cbRunner(observers[m][i], observers[m][i].queue))
    /\ observers' = [observers EXCEPT ![m][i].queue = <<>>]
    /\ UNCHANGED <<hook, params, ref, deps, cleanup, handles, released, requested>>

-----------------------------------------------------------------------------
(* Direct callers of the exported registerObserverInstance *)

\* registerObserverInstance(props) called directly: the first instance of
\* the module's array.
NewInstance(cb, p) ==
    /\ observers["new"] = <<>>
    /\ observers' = [observers EXCEPT
           !["new"] = Append(@, registerObserverInstance(hookProps("new", cb, p)))]
    /\ last' = Step("new", "caller", 1, <<Call("new", "new", 1, cb, NULL)>>,
                    <<>>, <<>>)
    /\ requested' = [requested EXCEPT
           !["new"] = @ \cup {Configuration(hookOptions("new", p))}]
    /\ UNCHANGED <<hook, params, ref, deps, cleanup, handles, released>>

\* instance.registerCallback(cb, el); the caller keeps what it returns.
Register(i, cb, el) ==
    /\ i \in 1..Len(observers["new"])
    /\ Len(observers["new"][i].callbackOptions) < MaxSubs
    /\ observers' = [observers EXCEPT !["new"][i] = registerCallback(@, cb, el)]
    /\ handles' = handles \cup {Handle("new", i, cb, el)}
    /\ released' = released \ {Handle("new", i, cb, el)}
    /\ last' = Step("registerCallback", "caller", i,
                    <<Call("registerCallback", "new", i, cb, el)>>, <<>>, <<>>)
    /\ UNCHANGED <<hook, params, ref, deps, cleanup, requested>>

\* The caller invokes a function registerCallback returned.
Release(hd) ==
    /\ hd \in handles
    /\ observers' = runCleanup(observers, hd)
    /\ released' = released \cup {hd}
    /\ last' = [Step("revert", "caller", hd.inst, cleanupCalls(hd), <<>>, <<>>)
                    EXCEPT !.again = (last.op = "revert"
                                        /\ last.calls = cleanupCalls(hd))]
    /\ UNCHANGED <<hook, params, ref, deps, cleanup, handles, requested>>

\* instance.unregisterCallback(el)
Unregister(i, el) ==
    /\ i \in 1..Len(observers["new"])
    /\ observers' = [observers EXCEPT !["new"][i] = unregisterCallback(@, el)]
    /\ last' = Step("unregisterCallback", "caller", i,
                    <<Call("unregisterCallback", "new", i, "c1", el)>>, <<>>, <<>>)
    /\ UNCHANGED <<hook, params, ref, deps, cleanup, handles, released, requested>>

-----------------------------------------------------------------------------
(* Specifications *)

Refs == Elements \cup {NULL}

\* Components calling hook h, and the engine of that module's instances.
NextHook(h) ==
    \/ \E c \in Consumers, p \in ParamsSet, el \in Refs :
          p \in ParamsOf(c) /\ el \in RefsOf(c)
             /\ Mount(c, h, p, el, MaxObservers)
    \/ \E c \in Consumers, p \in ParamsSet, el \in Refs :
          p \in ParamsOf(c) /\ el \in RefsOf(c)
             /\ Render(c, p, el, MaxObservers)
    \/ \E c \in Consumers : Unmount(c)
    \/ \E i \in 1..MaxObservers, el \in Elements : Queue(h, i, el, MaxQueued)
    \/ \E i \in 1..MaxObservers : Deliver(h, i)

\* Components calling useIntersectionObserver.
Next == NextHook("old")

Spec == Init /\ [][Next]_vars

\* Components calling useNewIntersectionObserver.
NextNew == NextHook("new")

SpecNew == Init /\ [][NextNew]_vars

\* One component calling useNewIntersectionObserver, through more effect runs.
NextComponent ==
    \/ \E p \in ParamsOf("c1"), el \in RefsOf("c1") :
          Mount("c1", "new", p, el, MaxRuns)
    \/ \E p \in ParamsOf("c1"), el \in RefsOf("c1") :
          Render("c1", p, el, MaxRuns)
    \/ Unmount("c1")
    \/ \E i \in 1..MaxRuns, el \in Elements : Queue("new", i, el, MaxQueued)
    \/ \E i \in 1..MaxRuns : Deliver("new", i)

SpecComponent == Init /\ [][NextComponent]_vars

\* A direct caller working on one instance, and the engine.
NextInstance ==
    \/ \E cb \in Callbacks : NewInstance(cb, EmptyObject)
    \/ \E cb \in Callbacks, el \in Elements : Register(1, cb, el)
    \/ \E hd \in handles : Release(hd)
    \/ \E el \in Elements : Unregister(1, el)
    \/ \E el \in Elements : Queue("new", 1, el, MaxBatch)
    \/ Deliver("new", 1)

SpecInstance == Init /\ [][NextInstance]_vars

-----------------------------------------------------------------------------
(* Notions the claims use *)

\* The Configuration of an instance: root, margin and thresholds the engine
\* was constructed with.
configOf(inst) == [k \in ConfigKeys |-> engineInit(inst)[k]]

\* The Configuration a component asks for in its latest render.
requestedConfig(c) == [k \in ConfigKeys |-> hookOptions(hook[c], params[c])[k]]

\* What merging the caller's params over the documented defaults gives for key k.
callerOverDefault(p, k) == IF p[k] # ABSENT THEN p[k] ELSE DEFAULT_PARAMS[k]

HasRecord(inst, cb, el) ==
    \E k \in 1..Len(inst.callbackOptions) :
        /\ inst.callbackOptions[k].callback = cb
        /\ inst.callbackOptions[k].element = el

Invoked(cb, el) ==
    \E k \in 1..Len(last.invoked) :
        /\ last.invoked[k].callback = cb
        /\ last.invoked[k].element = el

\* The records of a list that differ from (cb, el) in callback or in element.
Others(list, cb, el) ==
    SelectSeq(list, LAMBDA r : ~(r.callback = cb /\ r.element = el))

\* The registrations of direct callers that were not reverted since.
live == handles \ released

-----------------------------------------------------------------------------
(* C1 *)

\* C1: the registry holds at most one instance per structurally equal
\* Configuration: no two instances of an `observers` array were constructed
\* with the same root, margin and thresholds.
C1_OneInstancePerConfiguration ==
    \A m \in Modules : \A i, j \in 1..Len(observers[m]) :
        configOf(observers[m][i]) = configOf(observers[m][j]) => i = j

-----------------------------------------------------------------------------
(* C2 *)

\* C2: a registration (cb, el) that was not reverted gets every batch that
\* holds a record for el: the dispatch invokes cb with exactly the records of
\* the batch whose target is el, in the batch's order.
C2_SubscriberGetsItsRecords ==
    last.op = "deliver" =>
        \A hd \in live :
            (hd.inst = last.inst /\ entriesFor(last.batch, hd.element) # <<>>) =>
                \E k \in 1..Len(last.invoked) :
                    /\ last.invoked[k].callback = hd.callback
                    /\ last.invoked[k].element = hd.element
                    /\ last.invoked[k].args = entriesFor(last.batch, hd.element)

-----------------------------------------------------------------------------
(* C3 *)

\* C3: once the reversal handle of (cb, el) was invoked, no dispatch of that
\* instance invokes cb for el.
C3_NoDeliveryAfterRevert ==
    last.op = "deliver" =>
        \A hd \in released :
            hd.inst = last.inst => ~Invoked(hd.callback, hd.element)

-----------------------------------------------------------------------------
(* C4 *)

\* C4: invoking the reversal handle of (cb, el) leaves every record that
\* differs from (cb, el) in element or in callback in the list, unchanged.
C4_RevertKeepsOthers ==
    [][last'.op = "revert" =>
          LET call == last'.calls[1]
              before == observers[call.module][call.inst].callbackOptions
              after == observers'[call.module][call.inst].callbackOptions
          IN Others(after, call.callback, call.element)
                 = Others(before, call.callback, call.element)]_vars

-----------------------------------------------------------------------------
(* C5 *)

\* A render of c in which the caller switches active from true to false while
\* c holds a subscription for its element and asks for the same Configuration.
SwitchesOff(c) ==
    /\ hook[c] # "none" /\ hook'[c] = hook[c]
    /\ last'.op = "render" /\ last'.who = c
    /\ cleanup[c].inst # 0
    /\ ref[c] = cleanup[c].element /\ ref'[c] = ref[c]
    /\ params[c]["active"] # "false" /\ params'[c]["active"] = "false"
    /\ \A k \in ConfigKeys : params'[c][k] = params[c][k]

\* C5: when the caller switches active from true to false, the instance that
\* observed the element receives unregisterCallback for it and the registry
\* has as many instances as before.
C5_SwitchOffReusesInstance ==
    [][\A c \in Consumers :
          SwitchesOff(c) =>
              /\ Len(observers'[hook[c]]) = Len(observers[hook[c]])
              /\ \E k \in 1..Len(last'.calls) :
                    /\ last'.calls[k].op = "unregisterCallback"
                    /\ last'.calls[k].inst = cleanup[c].inst
                    /\ last'.calls[k].element = ref[c]]_vars

-----------------------------------------------------------------------------
(* C6 *)

\* C6: the options the hook works with are the caller's params merged over
\* the defaults: the active flag the effect depends on, and root, rootMargin
\* and threshold of an engine the render constructs, are the caller's value
\* where the caller gave one and the default otherwise.
C6_CallerOverDefaults ==
    \A c \in Consumers :
        (last.who = c /\ last.op \in {"mount", "render"}) =>
            /\ deps[c][2] = callerOverDefault(params[c], "active")
            /\ \A k \in 1..Len(last.calls) :
                  last.calls[k].op = "new" =>
                      \A key \in ConfigKeys :
                          engineInit(observers[hook[c]][last.calls[k].inst])[key]
                              = callerOverDefault(params[c], key)

-----------------------------------------------------------------------------
(* C7 *)

\* C7: unregisterCallback(el) takes el out of the engine's observation
\* targets and leaves the subscription list as it was.
C7_UnregisterOnlyUnobserves ==
    [][last'.op = "unregisterCallback" =>
          LET call == last'.calls[1]
              before == observers[call.module][call.inst]
              after == observers'[call.module][call.inst]
          IN /\ after.observed = before.observed \ {call.element}
             /\ after.callbackOptions = before.callbackOptions]_vars

\* unregisterCallback(el) was called on an instance that holds a record of a
\* registration for el that was not reverted; el is no longer observed and
\* the record is still there.
C7_Witness ==
    /\ last.op = "unregisterCallback"
    /\ LET call == last.calls[1]
           inst == observers[call.module][call.inst]
       IN /\ call.element \notin inst.observed
          /\ \E hd \in live :
                /\ hd.inst = call.inst /\ hd.element = call.element
                /\ HasRecord(inst, hd.callback, hd.element)

-----------------------------------------------------------------------------
(* C8 *)

\* An engine observes el with a record of c's callback for el.
ObservedFor(c, el) ==
    \E m \in Modules : \E i \in 1..Len(observers[m]) :
        el \in observers[m][i].observed /\ HasRecord(observers[m][i], c, el)

\* C8: after an effect run of a component whose element is present and whose
\* caller passed active = false, no engine observes the element for it.
C8_InactiveNotObserved ==
    \A c \in Consumers :
        ( /\ last.who = c /\ last.op \in {"mount", "render"}
          /\ last.calls # <<>>
          /\ params[c]["active"] = "false"
          /\ ref[c] # NULL ) => ~ObservedFor(c, ref[c])

-----------------------------------------------------------------------------
(* C9 *)

\* C9: when every component is unmounted (every reversal handle was invoked),
\* no engine observes an element and no subscription list holds a record.
C9_CleanAfterTeardown ==
    (\A c \in Consumers : hook[c] = "none") =>
        \A m \in Modules : \A i \in 1..Len(observers[m]) :
            /\ observers[m][i].observed = {}
            /\ observers[m][i].callbackOptions = <<>>

-----------------------------------------------------------------------------
(* C10 *)

\* C10: a request is served by an instance of the requested Configuration:
\* every instance an effect run constructs or calls was constructed with the
\* root, margin and thresholds the component asked for, so requests that
\* differ in one of them are served by different instances.
C10_ServedByRequestedConfiguration ==
    \A c \in Consumers :
        (last.who = c /\ last.op \in {"mount", "render"}) =>
            \A k \in 1..Len(last.calls) :
                last.calls[k].op \in {"new", "registerCallback", "unregisterCallback"}
                    => configOf(observers[hook[c]][last.calls[k].inst])
                           = requestedConfig(c)

\* c1 has just subscribed on an instance while c2 holds a subscription on
\* another instance of the same array, constructed with another Configuration.
C10_Witness ==
    /\ last.who = "c1" /\ last.op \in {"mount", "render"}
    /\ cleanup["c1"].inst # 0 /\ cleanup["c2"].inst # 0
    /\ hook["c1"] = hook["c2"]
    /\ cleanup["c1"].inst # cleanup["c2"].inst
    /\ configOf(observers[hook["c1"]][cleanup["c1"].inst])
           # configOf(observers[hook["c2"]][cleanup["c2"].inst])
    /\ \E k \in 1..Len(last.calls) :
          /\ last.calls[k].op = "registerCallback"
          /\ last.calls[k].inst = cleanup["c1"].inst

-----------------------------------------------------------------------------
(* C11 *)

\* C11: a dispatch invokes a record's callback only when the batch holds a
\* record for that record's element: no callback is called with an empty list.
C11_NoEmptyInvocation ==
    last.op = "deliver" =>
        \A k \in 1..Len(last.invoked) :
            /\ last.invoked[k].args # <<>>
            /\ \E n \in 1..Len(last.batch) :
                  last.batch[n].target = last.invoked[k].element

-----------------------------------------------------------------------------
(* C12 *)

\* C12: with two callbacks registered for the same element on one instance,
\* invoking the reversal handle of the first leaves the record of the second
\* in the list: a registration that was not reverted keeps its record
\* whenever another callback's registration for the same element was reverted.
C12_OtherCallbackKeepsRecord ==
    \A hd1 \in released : \A hd2 \in live :
        ( /\ hd1.module = hd2.module /\ hd1.inst = hd2.inst
          /\ hd1.element = hd2.element
          /\ hd1.callback # hd2.callback )
            => HasRecord(observers[hd2.module][hd2.inst], hd2.callback, hd2.element)

-----------------------------------------------------------------------------
(* C13 *)

\* The instances of module m whose engine is watching el.
Watchers(m, el) == {i \in 1..Len(observers[m]) : el \in observers[m][i].observed}

\* C13: every element some engine is watching is watched by exactly one
\* instance, and that instance's Configuration is the one its requester asks
\* for in its latest render, also after the requester changed its
\* Configuration with the same element and the same active flag.
C13_WatchedByRequestedConfiguration ==
    \A m \in Modules, el \in Elements :
        Watchers(m, el) # {} =>
            /\ Cardinality(Watchers(m, el)) = 1
            /\ \A c \in Consumers :
                  (hook[c] = m /\ cleanup[c].inst # 0 /\ cleanup[c].element = el) =>
                      /\ cleanup[c].inst \in Watchers(m, el)
                      /\ configOf(observers[m][cleanup[c].inst]) = requestedConfig(c)

-----------------------------------------------------------------------------
(* C14 *)

\* The elements the engine of the direct caller's instance is watching
\* (none while the instance does not exist).
Watching(obs) == IF obs["new"] = <<>> THEN {} ELSE obs["new"][1].observed

\* The step named el with one of the three instance operations.
Named(step, ops, el) ==
    /\ step.op \in ops
    /\ \E k \in 1..Len(step.calls) :
          step.calls[k].op = step.op /\ step.calls[k].element = el

\* C14: per instance and element the engine follows the machine
\* {Unwatched, Watching}: registerCallback naming el leaves el Watching,
\* unregisterCallback and the reversal handle naming el leave it Unwatched,
\* and a step that does not name el leaves el as it was; so el is Watching
\* iff the latest of these operations naming el was registerCallback.
C14_TwoStateMachine ==
    [][\A el \in Elements :
          IF Named(last', {"registerCallback"}, el)
          THEN el \in Watching(observers')
          ELSE IF Named(last', {"unregisterCallback", "revert"}, el)
          THEN el \notin Watching(observers')
          ELSE (el \in Watching(observers')) <=> (el \in Watching(observers))]_vars

\* A is Watching again: registered anew after a reversal handle for A ran,
\* while B is Unwatched.
C14_Witness ==
    /\ Named(last, {"registerCallback"}, "A")
    /\ \E hd \in released : hd.element = "A"
    /\ "A" \in Watching(observers)
    /\ "B" \notin Watching(observers)

-----------------------------------------------------------------------------
(* C15 *)

\* C15: the registry only grows: no step removes an instance from an
\* `observers` array or changes the Configuration of an instance in it, and
\* the array never holds more instances than distinct Configurations were
\* requested so far.
C15_RegistryOnlyGrows ==
    [][\A m \in Modules :
          /\ Len(observers'[m]) >= Len(observers[m])
          /\ \A i \in 1..Len(observers[m]) :
                configOf(observers'[m][i]) = configOf(observers[m][i])
          /\ Len(observers'[m]) <= Cardinality(requested'[m])]_vars

\* The half of C15 about removal and change alone.
RegistryMonotone ==
    [][\A m \in Modules :
          /\ Len(observers'[m]) >= Len(observers[m])
          /\ \A i \in 1..Len(observers[m]) :
                configOf(observers'[m][i]) = configOf(observers[m][i])]_vars

-----------------------------------------------------------------------------
(* C16 *)

\* C16: invoking a reversal handle a second time, with no other operation in
\* between, leaves the instance's subscription list and the engine's watched
\* set as they were after the first invocation.
C16_DoubleReleaseIsNoOp ==
    [][(last'.op = "revert" /\ last'.again) =>
          /\ observers'["new"][1].callbackOptions
                = observers["new"][1].callbackOptions
          /\ observers'["new"][1].observed = observers["new"][1].observed]_vars

\* A handle was invoked twice in a row on an instance on which another
\* registration is still held and something is still watched.
C16_Witness ==
    /\ last.op = "revert" /\ last.again
    /\ live # {}
    /\ Watching(observers) # {}

-----------------------------------------------------------------------------
(* C17 *)

\* How often the latest dispatch invoked callback cb.
TimesInvoked(cb) ==
    Cardinality({k \in 1..Len(last.invoked) : last.invoked[k].callback = cb})

\* C17: whatever mounts, element changes, active toggles and unmounts a
\* component went through, one batch of an engine invokes the component's
\* callback at most once.
C17_AtMostOncePerBatch ==
    last.op = "deliver" => \A c \in Consumers : TimesInvoked(c) <= 1

\* After active went true, false, true (three effect runs, the first and the
\* third registering A), the engine of the third instance delivers a batch
\* with a record for A and c1's callback is invoked.
C17_Witness ==
    /\ last.op = "deliver" /\ last.inst = 3
    /\ cleanup["c1"].inst = 3
    /\ Invoked("c1", "A")
    /\ HasRecord(observers["new"][1], "c1", "A")
    /\ observers["new"][2].options["active"] = "false"

=============================================================================
